---- MODULE Spec2Model ----
(***************************************************************************)
(* Model of argh (src/src/argh.h) driven as in src/src/main.cpp:           *)
(* an Args session is constructed over (argc, argv), parameters are        *)
(* registered with arg(), the remainder label is set, parse() is called,   *)
(* and on failure errors() and help() are rendered.                        *)
(*                                                                         *)
(* Encoding.  A C string is a sequence of char codes (signed 8-bit, so     *)
(* -128..127).  A pointer is a sequence of length 0 (nullptr) or 1 (the    *)
(* pointee).  A float is a decimal [neg, mant, scale] = (-1)^neg * mant /  *)
(* 10^scale with trailing zeros stripped.                                  *)
(***************************************************************************)
EXTENDS Integers, Sequences, FiniteSets, TLC

VARIABLES argc_, argv_, params_, errors_, remainderName_, procName_,
          opts, pc, result, errorsOut, helpOut, cout,
          calls, idxUsed, argvRead, opts0

\* calls, idxUsed, argvRead and opts0 are history variables: the arg() calls
\* made so far, every index applied to params_, every position of argv_
\* read, and the caller's struct as it was at construction.
vars == <<argc_, argv_, params_, errors_, remainderName_, procName_,
          opts, pc, result, errorsOut, helpOut, cout,
          calls, idxUsed, argvRead, opts0>>

-----------------------------------------------------------------------------
(* Bounds *)

MaxArgs == 2        \* number of arg() calls in a session
MaxArgc == 3        \* largest argc (argv[0] included)

-----------------------------------------------------------------------------
(* Program constants and input domains *)

kMaxParams == 256

NULL == <<>>
Ptr(x) == <<x>>

\* tokens the command line is built from
TokCluster  == <<45, 100, 118>>            \* "-dv"
TokLongOk   == <<45, 45, 114, 61, 57>>     \* "--r=9"
TokLongBad  == <<45, 45, 114, 61, 110>>    \* "--r=n"
TokUnknown  == <<45, 113>>                 \* "-q"
TokR        == <<114>>                     \* "r"
TokNine     == <<57>>                      \* "9"
TokHigh     == <<-61, -87>>                \* "\xC3\xA9", first char negative

Tokens == {TokCluster, TokLongOk, TokLongBad, TokUnknown, TokR, TokNine,
           TokHigh}

ProgName == <<97>>                         \* "a"

RECURSIVE SeqsUpTo(_, _)
SeqsUpTo(S, n) ==
    IF n = 0 THEN {<<>>}
    ELSE LET shorter == SeqsUpTo(S, n - 1)
         IN  shorter \cup {Append(s, t) : s \in shorter, t \in S}

\* the argument vectors: empty (argc = 0) or program name then tokens
ArgVectors == {<<>>} \cup {<<ProgName>> \o s : s \in SeqsUpTo(Tokens, MaxArgc - 1)}

\* struct Options of main.cpp and the C++ type of each member
Fields == {"infile", "rate", "debug", "verbose", "outfile"}

FieldType(f) ==
    CASE f \in {"infile", "outfile"} -> "cstr"
      [] f = "rate"                  -> "float"
      [] f \in {"debug", "verbose"}  -> "bool"

FloatZero == [neg |-> FALSE, mant |-> 0, scale |-> 0]

\* what the caller's rate member holds when the session starts: zero (the
\* zero-initialised global gOptions) or a value assigned earlier
PriorRates == {FloatZero, [neg |-> FALSE, mant |-> 5, scale |-> 0]}

\* keys handed to arg(): '-', 'd', 'v', 'r' and '\xE9' (-23 as a signed char)
Keys == {45, 100, 118, 114, -23}

Names == {<<114>>, <<100>>}                \* "r", "d"

DefaultOf(f) ==
    CASE f = "infile" -> Ptr(<<46, 47, 105, 110, 46, 102, 111, 111>>) \* "./in.foo"
      [] f = "rate"   -> [neg |-> FALSE, mant |-> 75, scale |-> 2]    \* 0.75f

HelpTextOf(f) ==
    CASE f = "infile"  -> "Specify the input file"
      [] f = "rate"    -> "Rate of enytopy"
      [] f = "debug"   -> "Start in daemon mode"
      [] f = "verbose" -> "Level of verbosity"

\* a value-initialised ValueT (defVal_() of the constructor without default)
ZeroOf(type) ==
    CASE type = "cstr"  -> NULL
      [] type = "float" -> FloatZero
      [] type = "bool"  -> FALSE

FieldsWithDefault == {"infile", "rate"}
FieldsNoDefault   == {"debug", "verbose"}

NoParseErr == [desc |-> "", source |-> NULL, details |-> ""]

-----------------------------------------------------------------------------
(* Value conversion *)

IsDigit(c) == c \in 48..57
IsSpace(c) == c = 32 \/ c \in 9..13

RECURSIVE SpanLen(_, _, _)
\* number of consecutive chars from position i on that satisfy digit/space
SpanLen(s, i, digits) ==
    IF i > Len(s) THEN 0
    ELSE IF (digits /\ IsDigit(s[i])) \/ (~digits /\ IsSpace(s[i]))
         THEN 1 + SpanLen(s, i + 1, digits)
         ELSE 0

RECURSIVE DigitsVal(_, _, _, _)
DigitsVal(s, i, n, acc) ==
    IF n = 0 THEN acc
    ELSE DigitsVal(s, i + 1, n - 1, acc * 10 + (s[i] - 48))

RECURSIVE Normalize(_)
Normalize(f) ==
    IF f.scale > 0 /\ f.mant % 10 = 0
    THEN Normalize([f EXCEPT !.mant = f.mant \div 10, !.scale = f.scale - 1])
    ELSE f

\* std::stof on a decimal literal: leading white space, optional sign,
\* digits with an optional '.', at least one digit; a trailing rest is
\* ignored.  (Exponents, hex floats, inf and nan need letters that no token
\* of Tokens contains.)
stof(s) ==
    LET ws   == SpanLen(s, 1, FALSE)
        sgn  == ws + 1 <= Len(s) /\ s[ws + 1] \in {43, 45}
        i0   == IF sgn THEN ws + 2 ELSE ws + 1
        n1   == SpanLen(s, i0, TRUE)
        dot  == i0 + n1 <= Len(s) /\ s[i0 + n1] = 46
        n2   == IF dot THEN SpanLen(s, i0 + n1 + 1, TRUE) ELSE 0
        mant == DigitsVal(s, i0 + n1 + 1, n2, DigitsVal(s, i0, n1, 0))
    IN  IF n1 + n2 = 0
        THEN [exc |-> "invalid_argument", val |-> FloatZero]
        ELSE [exc |-> "none",
              val |-> Normalize([neg |-> sgn /\ s[ws + 1] = 45,
                                 mant |-> mant, scale |-> n2])]

\* fromStr<ValueT>(const char* s); s is a pointer.  exc = "ub" marks
\* undefined behaviour (std::string built from a null pointer).
fromStr(type, sp) ==
    CASE type = "bool"  -> [exc |-> "none", val |-> TRUE]
      [] type = "cstr"  -> [exc |-> "none", val |-> sp]
      [] type = "float" -> IF sp = NULL
                           THEN [exc |-> "ub", val |-> FloatZero]
                           ELSE stof(sp[1])

\* Parameter::parseValue: the effect on the target field, on parseErr_ and
\* the returned flag
parseValue(p, sp) ==
    LET c == fromStr(p.type, sp)
    IN  CASE c.exc = "none" ->
               [ret |-> TRUE, write |-> TRUE, val |-> c.val, ub |-> FALSE,
                parseErr |-> p.parseErr]
          [] c.exc = "invalid_argument" ->
               [ret |-> FALSE, write |-> FALSE, val |-> c.val, ub |-> FALSE,
                parseErr |-> [desc |-> "Invalid Argument", source |-> sp,
                              details |-> "stof"]]
          [] c.exc = "out_of_range" ->
               [ret |-> FALSE, write |-> FALSE, val |-> c.val, ub |-> FALSE,
                parseErr |-> [desc |-> "Value Out of Range", source |-> sp,
                              details |-> "stof"]]
          [] c.exc = "ub" ->
               [ret |-> FALSE, write |-> FALSE, val |-> c.val, ub |-> TRUE,
                parseErr |-> p.parseErr]

-----------------------------------------------------------------------------
(* Construction *)

InRange(i) == i \in 0..(kMaxParams - 1)

Init ==
    /\ argv_ \in ArgVectors
    /\ argc_ = Len(argv_)
    /\ params_ = [i \in 0..(kMaxParams - 1) |-> NULL]
    /\ errors_ = <<>>
    /\ remainderName_ = ""
    /\ procName_ = IF argc_ # 0 THEN Ptr(argv_[1]) ELSE NULL
    /\ \E r \in PriorRates :
          opts = [infile |-> NULL, rate |-> r, debug |-> FALSE,
                  verbose |-> FALSE, outfile |-> NULL]
    /\ opts0 = opts
    /\ pc = "registering"
    /\ result = "none"
    /\ errorsOut = NULL
    /\ helpOut = NULL
    /\ cout = <<>>
    /\ calls = <<>>
    /\ idxUsed = {}
    /\ argvRead = {}

-----------------------------------------------------------------------------
(* Registration *)

NewParameter(f, key, name, hasDef) ==
    [key |-> key, name |-> name, help |-> HelpTextOf(f), field |-> f,
     type |-> FieldType(f), hasDef |-> hasDef,
     defVal |-> IF hasDef THEN DefaultOf(f) ELSE ZeroOf(FieldType(f)),
     parseErr |-> NoParseErr]

\* Parser::addParam: params_[(int)param->key()] = param, no bounds check.
\* An index outside the array is an out-of-bounds store: the process dies
\* or goes on with the array unchanged.
addParam(p, outcome) ==
    /\ idxUsed' = idxUsed \cup {p.key}
    /\ IF InRange(p.key)
       THEN /\ params_' = [params_ EXCEPT ![p.key] = Ptr(p)]
            /\ pc' = pc
       ELSE /\ params_' = params_
            /\ pc' = IF outcome = "crashed" THEN "crashed" ELSE pc

Register(f, key, name, hasDef) ==
    /\ pc = "registering"
    /\ Len(calls) < MaxArgs
    /\ \E outcome \in {"crashed", "silent"} :
          addParam(NewParameter(f, key, name, hasDef), outcome)
    /\ calls' = Append(calls, [field |-> f, key |-> key, name |-> name,
                               hasDef |-> hasDef])
    /\ UNCHANGED <<argc_, argv_, errors_, remainderName_, procName_, opts,
                   result, errorsOut, helpOut, argvRead, opts0, cout>>

\* Args::arg(field, key, name, help, defVal)
ArgDef == \E f \in FieldsWithDefault, key \in Keys, name \in Names :
             Register(f, key, name, TRUE)

\* Args::arg(field, key, name, help)
ArgNoDef == \E f \in FieldsNoDefault, key \in Keys, name \in Names :
               Register(f, key, name, FALSE)

\* Args::remainder(name)
Remainder ==
    /\ pc = "registering"
    /\ remainderName_' = "output path"
    /\ pc' = "labelled"
    /\ UNCHANGED <<argc_, argv_, params_, errors_, procName_, opts, result,
                   errorsOut, helpOut, calls, idxUsed, argvRead, opts0, cout>>

-----------------------------------------------------------------------------
(* Parsing *)

\* argv_[k] for a 0-based k: a token below argc_, the terminating null
\* pointer at argc_; beyond that the read is outside the vector
argvAt(k) == IF k < argc_ THEN Ptr(argv_[k + 1]) ELSE NULL

\* argv_[1][0]: the first char of the token, 0 for the empty string
firstChar(tok) == IF tok = <<>> THEN 0 ELSE tok[1]

\* what undefined behaviour inside parse() leads to: the process dies, or
\* the faulting access is dropped and parse() runs on to its return
ParseUB(outcome) ==
    /\ pc' = IF outcome = "crashed" THEN "crashed" ELSE "parsed"
    /\ result' = IF outcome = "crashed" THEN result ELSE "false"
    /\ UNCHANGED <<params_, opts, cout>>

\* Parser::parse (through Args::parse): one lookup by the first char of
\* argv_[1], one parseValue of argv_[2], a line " Parsed 'c" on std::cout
\* when it succeeded (cout keeps the char c), and return false
Parse ==
    /\ pc = "labelled"
    /\ \E outcome \in {"crashed", "dropped"} :
         IF argvAt(1) = NULL
         THEN \* argv_[1][0] dereferences a null or out-of-vector pointer
              /\ argvRead' = argvRead \cup {1}
              /\ idxUsed' = idxUsed
              /\ ParseUB(outcome)
         ELSE LET idx == firstChar(argvAt(1)[1])
              IN  /\ idxUsed' = idxUsed \cup {idx}
                  /\ IF ~InRange(idx)
                     THEN /\ argvRead' = argvRead \cup {1}
                          /\ ParseUB(outcome)
                     ELSE /\ argvRead' = argvRead \cup {1, 2}
                          /\ IF params_[idx] = NULL
                             THEN ParseUB(outcome)   \* param->parseValue on nullptr
                             ELSE LET param == params_[idx][1]
                                      r == parseValue(param, argvAt(2))
                                  IN  IF r.ub
                                      THEN ParseUB(outcome)
                                      ELSE /\ opts' = IF r.write
                                                      THEN [opts EXCEPT ![param.field] = r.val]
                                                      ELSE opts
                                           /\ params_' = [params_ EXCEPT ![idx] =
                                                  Ptr([param EXCEPT !.parseErr = r.parseErr])]
                                           /\ cout' = IF r.ret THEN Append(cout, idx)
                                                               ELSE cout
                                           /\ result' = "false"
                                           /\ pc' = "parsed"
    /\ UNCHANGED <<argc_, argv_, errors_, remainderName_, procName_,
                   errorsOut, helpOut, calls, opts0>>

\* Parser::errors: "" when errors_ is empty, else "Error: " and for every
\* error its description and, when srcArgv < argc_, the token it points at
errorsText ==
    IF errors_ = <<>> THEN <<>>
    ELSE <<[desc |-> "Error: ", at |-> NULL]>> \o
         [i \in 1..Len(errors_) |->
             [desc |-> errors_[i].desc,
              at |-> IF errors_[i].srcArgv < argc_
                     THEN Ptr(argv_[errors_[i].srcArgv + 1]) ELSE NULL]]

\* main.cpp: after a failed parse, print a.parser_.errors()
Errors ==
    /\ pc = "parsed"
    /\ result = "false"
    /\ errorsOut' = Ptr(errorsText)
    /\ pc' = "reported"
    /\ UNCHANGED <<argc_, argv_, params_, errors_, remainderName_, procName_,
                   opts, result, helpOut, calls, idxUsed, argvRead, opts0, cout>>

-----------------------------------------------------------------------------
(* Usage and help text *)

RECURSIVE Pow10(_)
Pow10(n) == IF n = 0 THEN 1 ELSE 10 * Pow10(n - 1)

RECURSIVE NatStr(_)
\* decimal digits of a natural number
NatStr(n) == IF n < 10 THEN <<48 + n>> ELSE Append(NatStr(n \div 10), 48 + (n % 10))

RECURSIVE PadZeros(_, _)
PadZeros(s, w) == IF Len(s) >= w THEN s ELSE PadZeros(<<48>> \o s, w)

\* operator<< of a float in the default format, for values of at most 6
\* significant digits and at least 0.0001, which print without exponent
FloatStr(f) ==
    LET ip == f.mant \div Pow10(f.scale)
        fp == f.mant % Pow10(f.scale)
    IN  (IF f.neg THEN <<45>> ELSE <<>>) \o NatStr(ip) \o
        (IF f.scale = 0 THEN <<>> ELSE <<46>> \o PadZeros(NatStr(fp), f.scale))

\* Parameter::defaultStr: ss << defVal_
defaultStr(p) ==
    CASE p.type = "float" -> FloatStr(p.defVal)
      [] p.type = "cstr"  -> IF p.defVal = NULL THEN <<>> ELSE p.defVal[1]
      [] p.type = "bool"  -> IF p.defVal THEN <<49>> ELSE <<48>>

\* Parameter::help: the columns of one line
helpLine(p) ==
    [key |-> p.key, name |-> p.name,
     default |-> IF p.hasDef THEN Ptr(defaultStr(p)) ELSE NULL,
     help |-> p.help]

RECURSIVE paramsFromDescending(_)
\* the same walk taken from the top of the array downwards
paramsFromDescending(i) ==
    LET rest == {j \in i..(kMaxParams - 1) : params_[j] # NULL}
    IN  IF rest = {} THEN <<>>
        ELSE LET j == CHOOSE m \in rest : \A n \in rest : m <= n
             IN  paramsFromDescending(j + 1) \o <<params_[j][1]>>

RECURSIVE paramsFrom(_)
\* for (const auto &p : parser_.params_) if (p) ...: the non-null entries
\* in array order, from index i on
paramsFrom(i) ==
    LET rest == {j \in i..(kMaxParams - 1) : params_[j] # NULL}
    IN  IF rest = {} THEN <<>>
        ELSE LET j == CHOOSE m \in rest : \A n \in rest : m <= n
             IN  <<params_[j][1]>> \o paramsFrom(j + 1)

\* Args::usage
usage ==
    LET ps == paramsFrom(0)
    IN  [proc |-> procName_, keys |-> [i \in 1..Len(ps) |-> ps[i].key],
         remainder |-> remainderName_]

\* Args::help
help ==
    LET ps == paramsFrom(0)
    IN  [usage |-> usage, lines |-> [i \in 1..Len(ps) |-> helpLine(ps[i])]]

Help ==
    /\ helpOut' = Ptr(help)
    /\ UNCHANGED <<argc_, argv_, params_, errors_, remainderName_, procName_,
                   opts, result, errorsOut, calls, idxUsed, argvRead, opts0, cout>>

\* main.cpp: after a failed parse, print a.help()
HelpAfterFailure ==
    /\ pc = "reported"
    /\ pc' = "done"
    /\ Help

\* a session that registers its parameters and only prints help()
HelpOnly ==
    /\ pc = "registering"
    /\ pc' = "done"
    /\ Help

-----------------------------------------------------------------------------
(* Specifications *)

Next == ArgDef \/ ArgNoDef \/ Remainder \/ Parse \/ Errors \/ HelpAfterFailure

Spec == Init /\ [][Next]_vars

\* registration and help only, on the command line "a r 9"
InitHelp ==
    /\ Init
    /\ argv_ = <<ProgName, TokR, TokNine>>

NextHelp == ArgDef \/ ArgNoDef \/ HelpOnly

SpecHelp == InitHelp /\ [][NextHelp]_vars

-----------------------------------------------------------------------------
(* Vocabulary of the properties *)

ParseInvoked  == argvRead # {}
ParseReturned == result # "none"

Occupied == {i \in 0..(kMaxParams - 1) : params_[i] # NULL}
P(i) == params_[i][1]

\* parse() is on its defined path: argv_[1] and argv_[2] are tokens and the
\* first char of argv_[1] is the key of a registered parameter
DefinedLookup == argc_ >= 3 /\ firstChar(argv_[2]) \in Occupied

\* the tokens after the program name
TokenPositions == 2..argc_

HasAt(tok, i, s) ==
    /\ i + Len(s) - 1 <= Len(tok)
    /\ SubSeq(tok, i, i + Len(s) - 1) = s

Occurs(s, tok) == \E i \in 1..Len(tok) : HasAt(tok, i, s)

FlagShaped(tok) == Len(tok) >= 2 /\ tok[1] = 45

\* tok is --name=value for the long name of p
LongForm(tok, p) ==
    /\ HasAt(tok, 1, <<45, 45>>)
    /\ HasAt(tok, 3, p.name)
    /\ HasAt(tok, 3 + Len(p.name), <<61>>)

LongValue(tok, p) == SubSeq(tok, 4 + Len(p.name), Len(tok))

Convertible(p, v) == fromStr(p.type, Ptr(v)).exc = "none"

\* tok is '-' followed by two or more distinct registered boolean keys
BoolCluster(tok) ==
    /\ Len(tok) >= 3
    /\ tok[1] = 45
    /\ \A j \in 2..Len(tok) :
          /\ tok[j] \in Occupied
          /\ P(tok[j]).type = "bool"
          /\ \A k \in 2..Len(tok) : k # j => tok[k] # tok[j]

\* the arg() calls whose key is a valid index of params_
ValidCalls == {i \in 1..Len(calls) : InRange(calls[i].key)}

-----------------------------------------------------------------------------
(* C1: parse() returns true exactly when no error was recorded during the  *)
(* scan, and false exactly when at least one was (stated for the scans     *)
(* that find their parameter and a value token, which run to the return).  *)
C1_TrueIffNoErrors ==
    (ParseReturned /\ DefinedLookup) => ((result = "true") <=> (errors_ = <<>>))

(* C2: when every token after the program name is --name=value with a      *)
(* registered long name and a convertible value, parse() returns true and  *)
(* each named parameter's field holds the converted value.                 *)
C2_LongNamesWithValues ==
    ( /\ ParseInvoked
      /\ argc_ >= 2
      /\ \A k \in TokenPositions : \E i \in Occupied :
            LongForm(argv_[k], P(i)) /\ Convertible(P(i), LongValue(argv_[k], P(i))) )
    => /\ result = "true"
       /\ \A k \in TokenPositions : \A i \in Occupied :
             LongForm(argv_[k], P(i)) =>
                opts[P(i).field] = fromStr(P(i).type, Ptr(LongValue(argv_[k], P(i)))).val

(* C3: a token '-' followed by distinct registered boolean keys sets every *)
(* one of their fields to true and consumes that token only: the next      *)
(* token is not taken as a value.                                          *)
C3_BoolCluster ==
    (ParseInvoked /\ argc_ >= 2 /\ BoolCluster(argv_[2]))
    => /\ ParseReturned
       /\ \A j \in 2..Len(argv_[2]) : opts[P(argv_[2][j]).field] = TRUE
       /\ argc_ >= 3 =>
             \A i \in Occupied :
                /\ P(i).parseErr.source # Ptr(argv_[3])
                /\ P(i).type = "cstr" => opts[P(i).field] # Ptr(argv_[3])

(* C4: from the first token that is not flag-shaped on, every token is     *)
(* remainder: parse() completes and none of these tokens writes a field    *)
(* of a parameter, so each registered field still holds what it held       *)
(* before the scan or the default given at registration (stated for the    *)
(* command lines of a non-flag token followed by at least one more).       *)
C4_RemainderWritesNoField ==
    (ParseInvoked /\ DefinedLookup /\ ~FlagShaped(argv_[2]))
    => /\ ParseReturned
       /\ \A i \in Occupied :
             \/ opts[P(i).field] = opts0[P(i).field]
             \/ \E j \in Occupied :
                   P(j).field = P(i).field /\ P(j).hasDef
                   /\ opts[P(i).field] = P(j).defVal

(* C5: a token -x whose key is not registered records exactly one          *)
(* unknown-key error for that token, parse() does not abort, and it        *)
(* returns false.                                                          *)
C5_UnknownKeyRecorded ==
    ( /\ ParseInvoked
      /\ argc_ >= 2
      /\ argv_[2] = TokUnknown
      /\ TokUnknown[2] \notin Occupied )
    => /\ pc # "crashed"
       /\ result = "false"
       /\ Cardinality({e \in 1..Len(errors_) : errors_[e].srcArgv = 1}) = 1

\* parseValue has been handed a value it could not convert
ConversionFailed ==
    \E i \in Occupied : P(i).parseErr.desc = "Invalid Argument"

(* C6: when a value cannot be converted to the matched parameter's type,   *)
(* parse() returns false, the error list holds exactly one error, which    *)
(* points at the offending token, errors() is not empty, and the field     *)
(* keeps the value it had before the call.                                 *)
C6_InvalidArgumentRecorded ==
    (ParseInvoked /\ ConversionFailed)
    => /\ result = "false"
       /\ Len(errors_) = 1
       /\ errors_[1].srcArgv \in 1..(argc_ - 1)
       /\ errorsOut # NULL => errorsOut[1] # <<>>
       /\ \A i \in Occupied :
             P(i).parseErr.desc = "Invalid Argument" =>
                opts[P(i).field] = opts0[P(i).field]

\* no token of the command line refers to the call's key or long name
Unnamed(c) ==
    \A k \in TokenPositions :
        /\ c.key \notin {argv_[k][j] : j \in 1..Len(argv_[k])}
        /\ ~Occurs(c.name, argv_[k])

(* C7: a parameter registered with a default that no token names has its   *)
(* field equal to that default after parse() (stated for the scans that    *)
(* find another parameter and its value token).                            *)
C7_DefaultApplied ==
    (ParseReturned /\ DefinedLookup) =>
       \A i \in ValidCalls :
          ( /\ calls[i].hasDef
            /\ Unnamed(calls[i])
            /\ \A j \in 1..Len(calls) : calls[j].field = calls[i].field => j = i )
          => opts[calls[i].field] = DefaultOf(calls[i].field)

(* C8: whenever parse() is about to be invoked, the registered keys are    *)
(* pairwise distinct, the registered long names are pairwise distinct, and *)
(* every parameter arg() took is still the one its key resolves to.        *)
C8_UniqueAndResolvable ==
    pc = "labelled" =>
       /\ \A i, j \in ValidCalls :
             i # j => /\ calls[i].key # calls[j].key
                      /\ calls[i].name # calls[j].name
       /\ \A i \in ValidCalls :
             /\ params_[calls[i].key] # NULL
             /\ P(calls[i].key).field = calls[i].field
             /\ P(calls[i].key).name = calls[i].name

\* the keys of the arg() calls are valid indexes and pairwise distinct
DistinctValidKeys ==
    /\ ValidCalls = 1..Len(calls)
    /\ \A i, j \in 1..Len(calls) : i # j => calls[i].key # calls[j].key

(* C9 as stated: help() renders one line per registered parameter, in the  *)
(* order of the arg() calls, with a default annotation exactly on the      *)
(* parameters registered with a default.                                   *)
C9_RegistrationOrder ==
    (pc = "done" /\ DistinctValidKeys)
    => /\ Len(helpOut[1].lines) = Len(calls)
       /\ \A i \in 1..Len(calls) :
             /\ helpOut[1].lines[i].key = calls[i].key
             /\ helpOut[1].lines[i].name = calls[i].name
             /\ (helpOut[1].lines[i].default # NULL) <=> calls[i].hasDef

\* the last arg() call made with key k
LastCall(k) ==
    calls[CHOOSE i \in ValidCalls :
             calls[i].key = k /\ \A j \in ValidCalls : calls[j].key = k => j <= i]

(* C9 amended: help() renders one line per distinct valid key passed to    *)
(* arg(), in ascending order of the key's char code, each line showing     *)
(* the parameter registered last under its key, with a default annotation  *)
(* exactly when that parameter was registered with a default.              *)
C9_KeyOrder ==
    pc = "done" =>
       LET lines == helpOut[1].lines
       IN  /\ {lines[i].key : i \in 1..Len(lines)} = {calls[i].key : i \in ValidCalls}
           /\ \A i, j \in 1..Len(lines) : i < j => lines[i].key < lines[j].key
           /\ \A i \in 1..Len(lines) :
                 /\ lines[i].name = LastCall(lines[i].key).name
                 /\ (lines[i].default # NULL) <=> LastCall(lines[i].key).hasDef
                 /\ lines[i].default # NULL =>
                       lines[i].default[1] =
                          defaultStr(NewParameter(LastCall(lines[i].key).field,
                                                  lines[i].key,
                                                  lines[i].name, TRUE))

\* help() has rendered two parameters whose keys were registered in
\* descending order, one with a default and one without
C9_Witness ==
    /\ pc = "done"
    /\ Len(calls) = 2
    /\ InRange(calls[2].key)
    /\ calls[2].key < calls[1].key
    /\ calls[1].hasDef /\ ~calls[2].hasDef
    /\ Len(helpOut[1].lines) = 2

(* C10: every index applied to params_ lies in 0..kMaxParams-1 and every   *)
(* position of argv_ that is read lies below argc_.                        *)
C10_AccessesInBounds ==
    /\ \A i \in idxUsed : InRange(i)
    /\ \A k \in argvRead : k < argc_

====
